---- MODULE Spec2Model ----
(***************************************************************************)
(* Model of the learning path generator:                                   *)
(*   youtube_client.search_videos, medium_client.get_articles_for_tag and  *)
(*   learning_path.generate_learning_path / _suggest_activities.           *)
(*                                                                         *)
(* Python lists are sequences.  A list object that is shared by reference  *)
(* (the list an adapter returned and the assembler's local variable that   *)
(* is bound to it) is modelled by a pair "object content" / "local value"  *)
(* plus an alias flag.  Text whose characters matter (ISO-8601 durations   *)
(* and their M:SS rendering) is a sequence of one-character strings; other *)
(* text is a TLA+ string.  An f-string with an interpolated value is the   *)
(* sequence of its segments, in order.                                     *)
(***************************************************************************)
EXTENDS Integers, Sequences, FiniteSets, TLC

VARIABLES
    pc,                 \* position inside generate_learning_path
    skill, weeks, videos_per_week, articles_per_week,   \* its arguments
    searchOutcome,      \* outcome of youtube.search().list().execute()
    items,              \* search_response["items"]
    detailsOutcome,     \* outcome of youtube.videos().list().execute()
    durations,          \* the durations dict of search_videos
    retVideos,          \* the list search_videos returned, as returned
    retArticles,        \* the list get_articles_for_tag returned, as returned
    objVideos,          \* current content of the list object search_videos returned
    objArticles,        \* current content of the list object get_articles_for_tag returned
    videos, articles,   \* the locals of generate_learning_path
    aliasVideos,        \* TRUE while local videos is bound to the returned object
    aliasArticles,      \* TRUE while local articles is bound to the returned object
    week_num,           \* loop variable of the plan loop
    plan                \* the plan under construction / returned

vars == <<pc, skill, weeks, videos_per_week, articles_per_week, searchOutcome,
          items, detailsOutcome, durations, retVideos, retArticles, objVideos,
          objArticles, videos, articles, aliasVideos, aliasArticles, week_num,
          plan>>

(***************************************************************************)
(* Bounds of the explored inputs.                                          *)
(***************************************************************************)
MaxWeeks == 7
MaxPerWeek == 2
MaxItems == 3
MaxFeed == 3

Skills == {"React", "Go"}

Min(a, b) == IF a < b THEN a ELSE b

(***************************************************************************)
(* Python sequence primitives.                                             *)
(***************************************************************************)
\* variant of Slice: the upper index taken as inclusive
Slice_InclusiveEnd(s, lo, hi) == SubSeq(s, lo + 1, Min(hi + 1, Len(s)))

\* s[lo:hi] for 0 <= lo, 0 <= hi
Slice(s, lo, hi) == SubSeq(s, lo + 1, Min(hi, Len(s)))

\* s[:n] for n >= 0
Prefix(s, n) == SubSeq(s, 1, Min(n, Len(s)))

\* variant of Extend: pads with the first element only
Extend_FirstOnly(s) == Append(s, Head(s))

\* list.extend(list) with itself as argument: the list followed by a copy
Extend(s) == s \o s

\* dict.get(key, "")
Get(d, k) == IF k \in DOMAIN d THEN d[k] ELSE ""

EmptyDict == [k \in {} |-> ""]

(***************************************************************************)
(* Duration text: parsing of the ISO-8601 time form PTnHnMnS and the       *)
(* minutes:seconds rendering.                                              *)
(***************************************************************************)
DigitChars == <<"0", "1", "2", "3", "4", "5", "6", "7", "8", "9">>

IsDigit(c) == \E d \in 1..10 : DigitChars[d] = c
DigitVal(c) == (CHOOSE d \in 1..10 : DigitChars[d] = c) - 1

UnitRank(c) == CASE c = "H" -> 1 [] c = "M" -> 2 [] c = "S" -> 3 [] OTHER -> 0
UnitSecs(c) == CASE c = "H" -> 3600 [] c = "M" -> 60 [] OTHER -> 1

ParseFailure == [ok |-> FALSE, total_seconds |-> 0]

\* the time components after "PT": numbers each followed by H, M or S, the
\* units in that order, each at most once
RECURSIVE ParseTime(_, _, _, _, _, _)
ParseTime(s, i, num, hasNum, total, rank) ==
    IF i > Len(s)
    THEN IF hasNum THEN ParseFailure ELSE [ok |-> TRUE, total_seconds |-> total]
    ELSE IF IsDigit(s[i])
         THEN ParseTime(s, i + 1, num * 10 + DigitVal(s[i]), TRUE, total, rank)
         ELSE IF hasNum /\ UnitRank(s[i]) > rank
              THEN ParseTime(s, i + 1, 0, FALSE,
                             total + num * UnitSecs(s[i]), UnitRank(s[i]))
              ELSE ParseFailure

\* isodate.parse_duration(...).total_seconds(); ok = FALSE when it raises
\* ISO8601Error (a ValueError)
ParseDuration(s) ==
    IF Len(s) >= 3 /\ s[1] = "P" /\ s[2] = "T"
    THEN ParseTime(s, 3, 0, FALSE, 0, 0)
    ELSE ParseFailure

\* str(n) for n >= 0, as characters
RECURSIVE ToChars(_)
ToChars(n) ==
    IF n < 10 THEN <<DigitChars[n + 1]>>
    ELSE ToChars(n \div 10) \o <<DigitChars[(n % 10) + 1]>>

\* f"{n:02d}" for n >= 0
TwoDigits(n) == IF n < 10 THEN <<"0">> \o ToChars(n) ELSE ToChars(n)

\* variant of FormatDuration: seconds not zero-padded
FormatDuration_NoPad(total_seconds) ==
    ToChars(total_seconds \div 60) \o <<":">> \o ToChars(total_seconds % 60)

\* f"{minutes}:{seconds:02d}"
FormatDuration(total_seconds) ==
    ToChars(total_seconds \div 60) \o <<":">> \o TwoDigits(total_seconds % 60)

\* durations.get(vid_id) and the conversion that follows it
DurationStr(durs, vid_id) ==
    IF vid_id \in DOMAIN durs /\ durs[vid_id] # <<>>
    THEN IF ParseDuration(durs[vid_id]).ok
         THEN FormatDuration(ParseDuration(durs[vid_id]).total_seconds)
         ELSE durs[vid_id]
    ELSE <<>>

(***************************************************************************)
(* youtube_client.search_videos                                            *)
(***************************************************************************)
\* the loop filling the durations dict from video_response["items"]
RECURSIVE CollectDurations(_, _)
CollectDurations(resp, d) ==
    IF resp = <<>> THEN d
    ELSE CollectDurations(Tail(resp),
            [k \in DOMAIN d \cup {Head(resp).id} |->
                IF k = Head(resp).id THEN Head(resp).contentDetails.duration
                ELSE d[k]])

VideoRecord(item, durs) ==
    [title        |-> Get(item.snippet, "title"),
     channel      |-> Get(item.snippet, "channelTitle"),
     video_id     |-> item.id.videoId,
     url          |-> "https://www.youtube.com/watch?v=" \o item.id.videoId,
     published_at |-> Get(item.snippet, "publishedAt"),
     duration     |-> DurationStr(durs, item.id.videoId)]

\* Only googleapiclient.errors.HttpError is caught around either call; any
\* other exception of execute() leaves search_videos.
SearchRaises(sOut, its, dOut) ==
    \/ sOut = "transport_error"
    \/ sOut = "ok" /\ its # <<>> /\ dOut = "transport_error"

DurationsDict(sOut, its, dOut, resp) ==
    IF sOut = "ok" /\ its # <<>> /\ dOut = "ok"
    THEN CollectDurations(resp, EmptyDict)
    ELSE EmptyDict

SearchVideosResult(sOut, its, dOut, resp) ==
    IF sOut # "ok" \/ its = <<>>
    THEN <<>>
    ELSE [i \in 1..Len(its) |->
            VideoRecord(its[i], DurationsDict(sOut, its, dOut, resp))]

(***************************************************************************)
(* medium_client.get_articles_for_tag                                      *)
(***************************************************************************)
ArticleRecord(entry) ==
    [title     |-> Get(entry, "title"),
     url       |-> Get(entry, "link"),
     published |-> IF Get(entry, "published") # "" THEN Get(entry, "published")
                   ELSE Get(entry, "updated"),
     summary   |-> Get(entry, "summary")]

GetArticlesForTag(entries, max_articles) ==
    [i \in 1..Len(Prefix(entries, max_articles)) |-> ArticleRecord(entries[i])]

(***************************************************************************)
(* The responses of the external services that are explored.               *)
(***************************************************************************)
VideoId(i) == "v" \o ToString(i)

SearchItem(i) ==
    [id      |-> [videoId |-> VideoId(i)],
     snippet |-> IF i % 3 = 0 THEN EmptyDict
                 ELSE [title        |-> "Video " \o ToString(i),
                       channelTitle |-> "Channel " \o ToString(i),
                       publishedAt  |-> "2024-01-0" \o ToString(i)]]

SearchItems(n) == [i \in 1..n |-> SearchItem(i)]

IsoSamples ==
    << <<"P", "T", "2", "M", "5", "S">>,
       <<"P", "T", "1", "2", "5", "S">>,
       <<"P", "T", "1", "H", "1", "M", "1", "S">>,
       <<"P", "T", "5", "9", "S">>,
       <<"P", "T", "1", "0", "M">> >>

IsoOf(i) == IsoSamples[((i - 1) % Len(IsoSamples)) + 1]

Unparseable == <<"5", "m", "i", "n">>

DetailsItem(i, iso) == [id |-> VideoId(i), contentDetails |-> [duration |-> iso]]

\* details responses for a request of ids v1..vn
DetailsResponses(n) ==
    { [i \in 1..n |-> DetailsItem(i, IsoOf(i))],                 \* every id
      [i \in 1..n |-> DetailsItem(n + 1 - i, IsoOf(n + 1 - i))], \* other order
      <<DetailsItem(1, IsoOf(1))>>,                              \* first id only
      <<DetailsItem(n, IsoOf(2))>>,                              \* last id only
      [i \in 1..n |-> DetailsItem(i, IF i = 1 THEN Unparseable   \* not ISO-8601
                                     ELSE IF i = 2 THEN <<>>     \* empty text
                                     ELSE IsoOf(i))],
      <<>> }                                                     \* no id

FeedEntry(i) ==
    CASE i % 3 = 1 -> [title     |-> "Article " \o ToString(i),
                       link      |-> "https://medium.com/p/" \o ToString(i),
                       published |-> "Mon, 01 Jan 2024",
                       summary   |-> "Summary " \o ToString(i)]
      [] i % 3 = 2 -> [title   |-> "Article " \o ToString(i),
                       link    |-> "https://medium.com/p/" \o ToString(i),
                       updated |-> "Tue, 02 Jan 2024"]
      [] OTHER     -> EmptyDict

FeedEntries(n) == [i \in 1..n |-> FeedEntry(i)]

(***************************************************************************)
(* learning_path.generate_learning_path                                    *)
(***************************************************************************)
total_videos == weeks * videos_per_week
total_articles == weeks * articles_per_week

\* variant of NeedsPadding: stops one element short
NeedsPadding_OneShort(seq, total) == Len(seq) + 1 < total /\ seq # <<>>

\* the condition of the two padding loops
NeedsPadding(seq, total) == Len(seq) < total /\ seq # <<>>

default_themes ==
    <<"Foundations", "Core Concepts", "Advanced Topics", "Project & Practice">>

\* variant of Theme: the fallback label uses the 0-based index
Theme_ZeroBased(wn) ==
    IF wn < Len(default_themes) THEN default_themes[wn + 1]
    ELSE "Week " \o ToString(wn)

Theme(wn) ==
    IF wn < Len(default_themes) THEN default_themes[wn + 1]
    ELSE "Week " \o ToString(wn + 1)

\* variant of SuggestActivities: the branch is chosen by week_index modulo 4
SuggestActivities_Modulo4(week_index, sk) ==
    IF week_index % 4 = 0
    THEN <<"Set up your environment for ", sk,
           ". Work through basic examples covered in the videos and summarise the key concepts in your own words.">>
    ELSE IF week_index % 4 = 1
    THEN <<"Experiment with building small components or programs using ", sk,
           ". Complete exercises from articles and implement variations.">>
    ELSE IF week_index % 4 = 2
    THEN <<"Apply what you've learned to a mini-project. Focus on more advanced features and read deeper resources.">>
    ELSE <<"Develop a capstone project incorporating multiple concepts of ", sk,
           ". Write a blog post or create a video summarising your project and share it.">>

\* variant of SuggestActivities: the last branch does not interpolate skill
SuggestActivities_CapstoneNoSkill(week_index, sk) ==
    IF week_index = 0
    THEN <<"Set up your environment for ", sk,
           ". Work through basic examples covered in the videos and summarise the key concepts in your own words.">>
    ELSE IF week_index = 1
    THEN <<"Experiment with building small components or programs using ", sk,
           ". Complete exercises from articles and implement variations.">>
    ELSE IF week_index = 2
    THEN <<"Apply what you've learned to a mini-project. Focus on more advanced features and read deeper resources.">>
    ELSE <<"Develop a capstone project incorporating multiple concepts. Write a blog post or create a video summarising your project and share it.">>

\* _suggest_activities: each text is the sequence of the segments of its
\* f-string; only the branches for 0, 1 and the last one interpolate skill
SuggestActivities(week_index, sk) ==
    IF week_index = 0
    THEN <<"Set up your environment for ", sk,
           ". Work through basic examples covered in the videos and summarise the key concepts in your own words.">>
    ELSE IF week_index = 1
    THEN <<"Experiment with building small components or programs using ", sk,
           ". Complete exercises from articles and implement variations.">>
    ELSE IF week_index = 2
    THEN <<"Apply what you've learned to a mini-project. Focus on more advanced features and read deeper resources.">>
    ELSE <<"Develop a capstone project incorporating multiple concepts of ", sk,
           ". Write a blog post or create a video summarising your project and share it.">>

WeekRecord(wn) ==
    [week       |-> wn + 1,
     theme      |-> Theme(wn),
     videos     |-> Slice(videos, wn * videos_per_week, (wn + 1) * videos_per_week),
     articles   |-> Slice(articles, wn * articles_per_week, (wn + 1) * articles_per_week),
     activities |-> SuggestActivities(wn, skill)]

Init ==
    /\ pc = "idle"
    /\ skill = "React"
    /\ weeks = 0
    /\ videos_per_week = 0
    /\ articles_per_week = 0
    /\ searchOutcome = "none"
    /\ items = <<>>
    /\ detailsOutcome = "none"
    /\ durations = EmptyDict
    /\ retVideos = <<>>
    /\ retArticles = <<>>
    /\ objVideos = <<>>
    /\ objArticles = <<>>
    /\ videos = <<>>
    /\ articles = <<>>
    /\ aliasVideos = FALSE
    /\ aliasArticles = FALSE
    /\ week_num = 0
    /\ plan = <<>>

\* a call of generate_learning_path: the arguments are bound
Call ==
    /\ pc \in {"idle", "done", "raised"}
    /\ \E sk \in Skills, w \in 0..MaxWeeks, v \in 0..MaxPerWeek, a \in 0..MaxPerWeek :
          /\ skill' = sk
          /\ weeks' = w
          /\ videos_per_week' = v
          /\ articles_per_week' = a
    /\ pc' = "search_videos"
    /\ searchOutcome' = "none"
    /\ items' = <<>>
    /\ detailsOutcome' = "none"
    /\ durations' = EmptyDict
    /\ retVideos' = <<>>
    /\ retArticles' = <<>>
    /\ objVideos' = <<>>
    /\ objArticles' = <<>>
    /\ videos' = <<>>
    /\ articles' = <<>>
    /\ aliasVideos' = FALSE
    /\ aliasArticles' = FALSE
    /\ week_num' = 0
    /\ plan' = <<>>

\* videos = youtube_client.search_videos(...): the whole of search_videos
SearchVideos ==
    /\ pc = "search_videos"
    /\ \E sOut \in {"ok", "http_error", "transport_error"}, n \in 0..MaxItems,
          dOut \in {"ok", "http_error", "transport_error"} :
        \E resp \in DetailsResponses(n) :
          /\ sOut # "ok" => n = 0
          /\ (sOut # "ok" \/ n = 0) => (dOut = "ok" /\ resp = <<>>)
          /\ dOut # "ok" => resp = <<>>
          /\ searchOutcome' = sOut
          /\ items' = SearchItems(n)
          /\ detailsOutcome' = IF sOut = "ok" /\ n > 0 THEN dOut ELSE "none"
          /\ durations' = DurationsDict(sOut, SearchItems(n), dOut, resp)
          /\ IF SearchRaises(sOut, SearchItems(n), dOut)
             THEN /\ pc' = "raised"
                  /\ UNCHANGED <<retVideos, objVideos, videos, aliasVideos>>
             ELSE /\ pc' = "get_articles"
                  /\ retVideos' = SearchVideosResult(sOut, SearchItems(n), dOut, resp)
                  /\ objVideos' = retVideos'
                  /\ videos' = retVideos'
                  /\ aliasVideos' = TRUE
    /\ UNCHANGED <<skill, weeks, videos_per_week, articles_per_week, retArticles,
                   objArticles, articles, aliasArticles, week_num, plan>>

\* articles = medium_client.get_articles_for_tag(...): feedparser.parse does not
\* raise on a failed fetch, it yields a result without entries
GetArticles ==
    /\ pc = "get_articles"
    /\ \E fOut \in {"ok", "failed"}, n \in 0..MaxFeed :
          /\ fOut = "failed" => n = 0
          /\ retArticles' = GetArticlesForTag(FeedEntries(n), total_articles)
    /\ objArticles' = retArticles'
    /\ articles' = retArticles'
    /\ aliasArticles' = TRUE
    /\ pc' = "normalize"
    /\ UNCHANGED <<skill, weeks, videos_per_week, articles_per_week, searchOutcome,
                   items, detailsOutcome, durations, retVideos, objVideos, videos,
                   aliasVideos, week_num, plan>>

\* if not videos: videos = [] ; if not articles: articles = []
Normalize ==
    /\ pc = "normalize"
    /\ aliasVideos' = (aliasVideos /\ videos # <<>>)
    /\ aliasArticles' = (aliasArticles /\ articles # <<>>)
    /\ pc' = "pad"
    /\ UNCHANGED <<skill, weeks, videos_per_week, articles_per_week, searchOutcome,
                   items, detailsOutcome, durations, retVideos, retArticles,
                   objVideos, objArticles, videos, articles, week_num, plan>>

\* one iteration of: while len(videos) < total_videos and videos: videos.extend(videos)
PadVideos ==
    /\ pc = "pad"
    /\ NeedsPadding(videos, total_videos)
    /\ videos' = Extend(videos)
    /\ objVideos' = IF aliasVideos THEN videos' ELSE objVideos
    /\ UNCHANGED <<pc, skill, weeks, videos_per_week, articles_per_week,
                   searchOutcome, items, detailsOutcome, durations, retVideos,
                   retArticles, objArticles, articles, aliasVideos, aliasArticles,
                   week_num, plan>>

\* one iteration of: while len(articles) < total_articles and articles: articles.extend(articles)
PadArticles ==
    /\ pc = "pad"
    /\ ~NeedsPadding(videos, total_videos)
    /\ NeedsPadding(articles, total_articles)
    /\ articles' = Extend(articles)
    /\ objArticles' = IF aliasArticles THEN articles' ELSE objArticles
    /\ UNCHANGED <<pc, skill, weeks, videos_per_week, articles_per_week,
                   searchOutcome, items, detailsOutcome, durations, retVideos,
                   retArticles, objVideos, videos, aliasVideos, aliasArticles,
                   week_num, plan>>

\* videos = videos[:total_videos] ; articles = articles[:total_articles]
Truncate ==
    /\ pc = "pad"
    /\ ~NeedsPadding(videos, total_videos)
    /\ ~NeedsPadding(articles, total_articles)
    /\ videos' = Prefix(videos, total_videos)
    /\ articles' = Prefix(articles, total_articles)
    /\ aliasVideos' = FALSE
    /\ aliasArticles' = FALSE
    /\ week_num' = 0
    /\ plan' = <<>>
    /\ pc' = "build"
    /\ UNCHANGED <<skill, weeks, videos_per_week, articles_per_week, searchOutcome,
                   items, detailsOutcome, durations, retVideos, retArticles,
                   objVideos, objArticles>>

\* one iteration of: for week_num in range(weeks): plan.append({...})
BuildWeek ==
    /\ pc = "build"
    /\ week_num < weeks
    /\ plan' = Append(plan, WeekRecord(week_num))
    /\ week_num' = week_num + 1
    /\ UNCHANGED <<pc, skill, weeks, videos_per_week, articles_per_week,
                   searchOutcome, items, detailsOutcome, durations, retVideos,
                   retArticles, objVideos, objArticles, videos, articles,
                   aliasVideos, aliasArticles>>

\* return plan
Return ==
    /\ pc = "build"
    /\ week_num = weeks
    /\ pc' = "done"
    /\ UNCHANGED <<skill, weeks, videos_per_week, articles_per_week, searchOutcome,
                   items, detailsOutcome, durations, retVideos, retArticles,
                   objVideos, objArticles, videos, articles, aliasVideos,
                   aliasArticles, week_num, plan>>

Next ==
    \/ Call
    \/ SearchVideos
    \/ GetArticles
    \/ Normalize
    \/ PadVideos
    \/ PadArticles
    \/ Truncate
    \/ BuildWeek
    \/ Return

Spec == Init /\ [][Next]_vars

(***************************************************************************)
(* Helpers of the properties.                                              *)
(***************************************************************************)
Returned == pc = "done"

RECURSIVE ConcatField(_, _)
ConcatField(p, f) ==
    IF p = <<>> THEN <<>> ELSE Head(p)[f] \o ConcatField(Tail(p), f)

\* P is the first T elements of the endless repetition of R
CyclicOf(R, P, T) ==
    /\ Len(P) = T
    /\ \A i \in 0..(T - 1) : P[i + 1] = R[(i % Len(R)) + 1]

\* the text contains the interpolated value
References(text, sk) == \E k \in 1..Len(text) : text[k] = sk

RECURSIVE DecVal(_)
DecVal(cs) ==
    IF cs = <<>> THEN 0
    ELSE 10 * DecVal(SubSeq(cs, 1, Len(cs) - 1)) + DigitVal(cs[Len(cs)])

\* d reads minutes ":" two-digit seconds and denotes t seconds
IsMinSec(d, t) ==
    /\ Len(d) >= 4
    /\ d[Len(d) - 2] = ":"
    /\ \A k \in (1..Len(d)) \ {Len(d) - 2} : IsDigit(d[k])
    /\ (Len(d) > 4 => d[1] # "0")
    /\ DecVal(SubSeq(d, 1, Len(d) - 3)) = t \div 60
    /\ DecVal(SubSeq(d, Len(d) - 1, Len(d))) = t % 60

LookedUp(i) == retVideos[i].video_id \in DOMAIN durations
                 /\ durations[retVideos[i].video_id] # <<>>
Raw(i) == durations[retVideos[i].video_id]

(***************************************************************************)
(* C1: when generate_learning_path has returned, the number of videos over *)
(* all weeks is weeks * videos_per_week if the video adapter returned a    *)
(* non-empty list and 0 if it returned an empty one; likewise, and         *)
(* independently, for articles with articles_per_week.                     *)
(***************************************************************************)
C1_TotalsPerKind ==
    Returned =>
        /\ Len(ConcatField(plan, "videos")) =
              IF retVideos # <<>> THEN weeks * videos_per_week ELSE 0
        /\ Len(ConcatField(plan, "articles")) =
              IF retArticles # <<>> THEN weeks * articles_per_week ELSE 0

\* videos were padded from a short result while the article feed was empty
C1_Witness ==
    /\ Returned
    /\ retVideos # <<>> /\ Len(retVideos) < total_videos
    /\ retArticles = <<>> /\ total_articles > 0
    /\ Len(ConcatField(plan, "videos")) = total_videos
    /\ Len(ConcatField(plan, "articles")) = 0

(***************************************************************************)
(* C2: after padding and truncation, a non-empty adapter result R of       *)
(* length n has become a sequence P of length T = weeks * per_week with    *)
(* P[i] = R[i mod n] for 0 <= i < T, for videos and for articles.          *)
(***************************************************************************)
C2_PaddingIsCyclic ==
    pc \in {"build", "done"} =>
        /\ retVideos # <<>> => CyclicOf(retVideos, videos, total_videos)
        /\ retArticles # <<>> => CyclicOf(retArticles, articles, total_articles)

\* n = 3 and T = 7: source indices 0,1,2,0,1,2,0
C2_Witness ==
    /\ Returned
    /\ Len(retVideos) = 3 /\ total_videos = 7
    /\ videos = <<retVideos[1], retVideos[2], retVideos[3], retVideos[1],
                  retVideos[2], retVideos[3], retVideos[1]>>

(***************************************************************************)
(* C3 (as claimed): no outcome of the three external calls makes           *)
(* generate_learning_path raise; it returns a plan of exactly weeks        *)
(* records, and a failed primary search gives every week zero videos.      *)
(***************************************************************************)
C3_NeverRaises ==
    /\ pc # "raised"
    /\ Returned => Len(plan) = weeks
    /\ (Returned /\ searchOutcome # "ok") =>
          /\ retVideos = <<>>
          /\ \A k \in 1..Len(plan) : plan[k].videos = <<>>

(***************************************************************************)
(* C4 (as claimed): when the search gave n >= 1 items and the details      *)
(* lookup failed, search_videos returns n records, one per item in the     *)
(* search's order, each with empty duration; and every item whose id has   *)
(* no duration in the details response gets the empty duration.            *)
(***************************************************************************)
C4_DetailsFailureKeepsItems ==
    /\ (searchOutcome = "ok" /\ items # <<>>
          /\ detailsOutcome \in {"http_error", "transport_error"}) =>
          /\ pc # "raised"
          /\ Len(retVideos) = Len(items)
          /\ \A i \in 1..Len(retVideos) :
                /\ retVideos[i].video_id = items[i].id.videoId
                /\ retVideos[i].duration = <<>>
    /\ \A i \in 1..Len(retVideos) :
          retVideos[i].video_id \notin DOMAIN durations =>
              retVideos[i].duration = <<>>

(***************************************************************************)
(* C5: the returned plan has exactly weeks records; the record at 0-based  *)
(* position i has week number i + 1 and theme "Foundations", "Core         *)
(* Concepts", "Advanced Topics", "Project & Practice" for i = 0..3 and     *)
(* "Week {i+1}" for i >= 4, whatever the adapters returned.                *)
(***************************************************************************)
C5_WeeksAndThemes ==
    Returned =>
        /\ Len(plan) = weeks
        /\ \A i \in 0..(weeks - 1) :
              /\ plan[i + 1].week = i + 1
              /\ plan[i + 1].theme =
                    CASE i = 0 -> "Foundations"
                      [] i = 1 -> "Core Concepts"
                      [] i = 2 -> "Advanced Topics"
                      [] i = 3 -> "Project & Practice"
                      [] OTHER -> "Week " \o ToString(i + 1)
        /\ weeks = 6 => (plan[5].theme = "Week 5" /\ plan[6].theme = "Week 6")

C5_Witness ==
    /\ Returned
    /\ weeks = 6
    /\ plan[4].theme = "Project & Practice"
    /\ plan[6].week = 6 /\ plan[6].theme = "Week 6"

(***************************************************************************)
(* C6 (as claimed): any two weeks of a plan whose 0-based indices are      *)
(* congruent modulo 4 receive the same activities text.                    *)
(***************************************************************************)
C6_SameTextModulo4 ==
    Returned =>
        \A i, j \in 0..(weeks - 1) :
            i % 4 = j % 4 => plan[i + 1].activities = plan[j + 1].activities

(***************************************************************************)
(* C6 (amended): the activities text is fixed by the week index capped at  *)
(* 3: two weeks whose indices are both >= 3 receive the same text, and a   *)
(* week of index >= 4 does not receive the text of the index it is         *)
(* congruent to modulo 4 among 0, 1, 2.                                    *)
(***************************************************************************)
C6_SameTextCappedAt3 ==
    Returned =>
        \A i, j \in 0..(weeks - 1) :
            /\ Min(i, 3) = Min(j, 3) => plan[i + 1].activities = plan[j + 1].activities
            /\ (i < 3 /\ j > 3) => plan[i + 1].activities # plan[j + 1].activities

C6_Witness ==
    /\ Returned
    /\ weeks >= 5
    /\ plan[5].activities = plan[4].activities
    /\ plan[5].activities # plan[1].activities

(***************************************************************************)
(* C7: week k (0-based) holds the elements k*per_week .. (k+1)*per_week-1  *)
(* of the padded and truncated sequence P, so the weeks' lists             *)
(* concatenated in week order are exactly P; for videos and for articles.  *)
(* (When P is empty every week's list is empty.)                           *)
(***************************************************************************)
C7_ContiguousSlices ==
    Returned =>
        /\ ConcatField(plan, "videos") = videos
        /\ ConcatField(plan, "articles") = articles
        /\ \A k \in 0..(weeks - 1) :
              /\ Len(plan[k + 1].videos) =
                    IF videos = <<>> THEN 0 ELSE videos_per_week
              /\ \A j \in 1..Len(plan[k + 1].videos) :
                    plan[k + 1].videos[j] = videos[k * videos_per_week + j]
              /\ Len(plan[k + 1].articles) =
                    IF articles = <<>> THEN 0 ELSE articles_per_week
              /\ \A j \in 1..Len(plan[k + 1].articles) :
                    plan[k + 1].articles[j] = articles[k * articles_per_week + j]

C7_Witness ==
    /\ Returned
    /\ weeks >= 2 /\ videos_per_week = 2 /\ Len(retVideos) = 3
    /\ plan[1].videos = <<videos[1], videos[2]>>
    /\ plan[2].videos = <<videos[3], videos[4]>>
    /\ plan[1].videos # plan[2].videos

C9_EveryTextReferencesSkill ==
    Returned =>
        /\ \A i \in 0..(weeks - 1) : References(plan[i + 1].activities, skill)
        /\ \A i, j \in 0..(weeks - 1) :
              Min(i, 3) # Min(j, 3) => plan[i + 1].activities # plan[j + 1].activities

(***************************************************************************)
(* C9 (amended): the four activity branches yield pairwise distinct texts; *)
(* the texts for week index 0, 1 and every index >= 3 reference the skill, *)
(* the text for week index 2 is a fixed text that does not interpolate it. *)
(***************************************************************************)
C9_TextReferencesSkillExceptIndex2 ==
    Returned =>
        /\ \A i \in 0..(weeks - 1) :
              References(plan[i + 1].activities, skill) <=> i # 2
        /\ \A i, j \in 0..(weeks - 1) :
              Min(i, 3) # Min(j, 3) => plan[i + 1].activities # plan[j + 1].activities

C9_Witness ==
    /\ Returned
    /\ weeks >= 4
    /\ References(plan[1].activities, skill)
    /\ References(plan[2].activities, skill)
    /\ ~References(plan[3].activities, skill)
    /\ References(plan[4].activities, skill)

(***************************************************************************)
(* C10 (as claimed): when generate_learning_path has returned, the list    *)
(* object each adapter returned has the length and the elements it had     *)
(* when the adapter returned it.                                           *)
(***************************************************************************)
C10_AdapterListsUnchanged ==
    Returned => (objVideos = retVideos /\ objArticles = retArticles)

====
